---- MODULE Spec2Model ----
(***************************************************************************)
(* Model of the chat-searcher front end (www/index.js): the upload         *)
(* handler, the thread search, the thread click handler and the two        *)
(* "Load More" handlers, together with the Searcher engine they call.      *)
(* The engine is the wasm package of this repository; its code is not part *)
(* of the front end, so its four operations are modelled from the          *)
(* written contract (section 4.1 of the specification).                    *)
(***************************************************************************)
EXTENDS Integers, Sequences, FiniteSets, TLC

\* ---------------------------------------------------------------- bounds
\* Engine calls made in one behaviour (so that repeated clicks are steps).
MaxCalls == 6
\* Size of the engine's "default-sized" initial window of a thread.
InitialWindowSize == 3

\* ------------------------------------------------------- program constants
\* const messagesPerPage = 5
messagesPerPage == 5

\* let currentThreadId = null
NullThread == "null"

\* ------------------------------------------------------------ input data
\* The files a user can pick: two well-formed exports and a malformed one.
Files == {"A", "B", "bad"}

\* What the user can type into the search box (characters as 1-strings).
Queries == {<<>>, <<"T">>, <<"t">>, <<"x">>}

Msg(id, t) == [message_id |-> id, thread |-> t]

Thr(id, title) == [thread_id |-> id, title_text |-> title]

\* The parsed content of each well-formed export: its threads in the
\* engine's order and its messages (global ids, gaps permitted).
ArchiveThreads(f) ==
    IF f = "A"
    THEN << Thr("t2", <<"x">>), Thr("t1", <<"T", "r">>) >>
    ELSE IF f = "B"
    THEN << Thr("t1", <<"T", "r">>), Thr("t3", <<"r", "t">>), Thr("t4", <<"X">>) >>
    ELSE << >>

ArchiveMessages(f) ==
    IF f = "A"
    THEN { Msg(7, "t2"), Msg(9, "t2"), Msg(13, "t2"),
           Msg(10, "t1"), Msg(11, "t1"), Msg(12, "t1"), Msg(14, "t1"), Msg(30, "t1") }
    ELSE IF f = "B"
    THEN { Msg(14, "t1"), Msg(15, "t1"), Msg(16, "t1"), Msg(17, "t1"),
           Msg(18, "t1"), Msg(19, "t1"), Msg(23, "t1"),
           Msg(20, "t3"), Msg(21, "t3"), Msg(22, "t3") }
    ELSE {}

\* ------------------------------------------------------------- helpers
Min(a, b) == IF a <= b THEN a ELSE b

RECURSIVE SortById(_)
SortById(S) ==
    IF S = {} THEN << >>
    ELSE LET m == CHOOSE x \in S : \A y \in S : x.message_id <= y.message_id
         IN  << m >> \o SortById(S \ {m})

Ids(s) == [i \in 1..Len(s) |-> s[i].message_id]

\* String.prototype.toLowerCase, character by character.
LowerChar(c) ==
    IF c = "T" THEN "t" ELSE IF c = "R" THEN "r" ELSE IF c = "X" THEN "x" ELSE c

toLowerCase(s) == [i \in 1..Len(s) |-> LowerChar(s[i])]

IsInfix(q, s) ==
    \E i \in 0..(Len(s) - Len(q)) : \A j \in 1..Len(q) : s[i + j] = q[j]

\* ------------------------------------------------------------ the engine
\* set_data: succeeds on a well-formed export, throws on anything else.
set_data_ok(f) == f \in {"A", "B"}

\* find_threads: the threads whose (case-folded) title contains the query,
\* in the engine's order; the empty query matches every thread.
RECURSIVE FilterThreads(_, _)
FilterThreads(ts, q) ==
    IF ts = << >> THEN << >>
    ELSE (IF IsInfix(q, toLowerCase(Head(ts).title_text)) THEN << Head(ts) >> ELSE << >>)
         \o FilterThreads(Tail(ts), q)

find_threads(data, q) == FilterThreads(ArchiveThreads(data), q)

HasThread(data, tid) ==
    \E i \in 1..Len(ArchiveThreads(data)) : ArchiveThreads(data)[i].thread_id = tid

\* get_thread_messages: the default-sized window at the start of the thread.
get_thread_messages(data, tid) ==
    LET all == SortById({m \in ArchiveMessages(data) : m.thread = tid})
    IN  SubSeq(all, 1, Min(InitialWindowSize, Len(all)))

\* get_message_range: every message with lo <= message_id <= hi, by id.
get_message_range(data, lo, hi) ==
    SortById({m \in ArchiveMessages(data) : lo <= m.message_id /\ m.message_id <= hi})

\* ------------------------------------------------------------- the state
VARIABLES
    fileInputValue,   \* fileInput.value: the file picked last, "" when cleared
    fileReads,        \* files whose file.text() has not resolved yet
    engineData,       \* the export the Searcher holds, "none" before set_data
    loadingHidden,    \* loading.classList has "hidden"
    fileInputHidden,  \* fileInput.classList has "hidden"
    uploadHidden,     \* uploadSection.classList has "hidden"
    searchHidden,     \* searchDisplaySection.classList has "hidden"
    searchInputValue, \* searchInput.value: the text in the search box
    threadsList,      \* data-id of the <li> elements of #threads-list
    currentThreadId,
    currentDetails,
    detailsContent,   \* message ids rendered into #details-content
    loadBeforeButton, \* #load-before exists (with its click listener)
    loadAfterButton,  \* #load-after exists (with its click listener)
    lastCall,         \* the most recent call into the Searcher
    calls,            \* number of calls into the Searcher so far
    lastError         \* what the last handler threw or reported

vars == << fileInputValue, fileReads, engineData, loadingHidden, fileInputHidden,
           uploadHidden, searchHidden, searchInputValue, threadsList, currentThreadId,
           currentDetails,
           detailsContent, loadBeforeButton, loadAfterButton, lastCall, calls,
           lastError >>

dom == << loadingHidden, fileInputHidden, uploadHidden, searchHidden >>

browsing == << currentThreadId, currentDetails >>

detailsView == << detailsContent, loadBeforeButton, loadAfterButton >>

Call(op, by, lo, hi, tid, query, ok, result) ==
    [op |-> op, by |-> by, lo |-> lo, hi |-> hi, tid |-> tid, query |-> query,
     ok |-> ok, result |-> result]

NoCall == Call("none", "none", 0, 0, "", << >>, TRUE, << >>)

\* A page whose search section is shown before any archive is loaded.
InitSearchShown ==
    /\ fileInputValue = ""
    /\ fileReads = {}
    /\ engineData = "none"
    /\ loadingHidden = TRUE
    /\ fileInputHidden = FALSE
    /\ uploadHidden = FALSE
    /\ searchHidden = FALSE
    /\ searchInputValue = << >>
    /\ threadsList = << >>
    /\ currentThreadId = NullThread
    /\ currentDetails = << >>
    /\ detailsContent = << >>
    /\ loadBeforeButton = FALSE
    /\ loadAfterButton = FALSE
    /\ lastCall = NoCall
    /\ calls = 0
    /\ lastError = "none"

Init ==
    /\ fileInputValue = ""
    /\ fileReads = {}
    /\ engineData = "none"
    /\ loadingHidden = TRUE
    /\ fileInputHidden = FALSE
    /\ uploadHidden = FALSE
    /\ searchHidden = TRUE
    /\ searchInputValue = << >>
    /\ threadsList = << >>
    /\ currentThreadId = NullThread
    /\ currentDetails = << >>
    /\ detailsContent = << >>
    /\ loadBeforeButton = FALSE
    /\ loadAfterButton = FALSE
    /\ lastCall = NoCall
    /\ calls = 0
    /\ lastError = "none"

\* ------------------------------------------------------------ file upload
\* The "change" event up to the await: the loading indicator is shown and
\* the read of the file starts.
FileChange(f) ==
    /\ ~fileInputHidden /\ ~uploadHidden
    /\ f # fileInputValue
    /\ fileInputValue' = f
    /\ fileReads' = fileReads \cup {f}
    /\ loadingHidden' = FALSE
    /\ UNCHANGED << engineData, fileInputHidden, uploadHidden, searchHidden,
                    searchInputValue, threadsList, browsing, detailsView, lastCall, calls,
                    lastError >>

\* try { searcher.set_data(fileContent); ... }
SetDataTry(f) ==
    /\ engineData' = f
    /\ fileInputHidden' = TRUE
    /\ loadingHidden' = TRUE
    /\ uploadHidden' = TRUE
    /\ searchHidden' = FALSE
    /\ lastError' = "none"
    /\ UNCHANGED fileInputValue

\* A catch branch that also runs the statements written after set_data.
SetDataCatchShown ==
    /\ lastError' = "MalformedArchive"
    /\ loadingHidden' = TRUE
    /\ fileInputValue' = ""
    /\ fileInputHidden' = TRUE
    /\ uploadHidden' = TRUE
    /\ searchHidden' = FALSE
    /\ UNCHANGED engineData

\* catch (error) { console.error; alert; hide loading; fileInput.value = "" }
SetDataCatch ==
    /\ lastError' = "MalformedArchive"
    /\ loadingHidden' = TRUE
    /\ fileInputValue' = ""
    /\ UNCHANGED << engineData, fileInputHidden, uploadHidden, searchHidden >>

\* The continuation of the "change" handler once file.text() has resolved.
FileLoaded(f) ==
    /\ f \in fileReads
    /\ calls < MaxCalls
    /\ fileReads' = fileReads \ {f}
    /\ calls' = calls + 1
    /\ lastCall' = Call("set_data", "change", 0, 0, f, << >>, set_data_ok(f), << >>)
    /\ IF set_data_ok(f) THEN SetDataTry(f) ELSE SetDataCatch
    /\ UNCHANGED << searchInputValue, threadsList, browsing, detailsView >>

\* ---------------------------------------------------------------- search
\* A renderThreads that lists the threads in the opposite order.
renderThreadsReversed(threads) ==
    [i \in 1..Len(threads) |-> threads[Len(threads) - i + 1].thread_id]

\* renderThreads: one <li data-id=thread_id> per thread, in the given order.
renderThreads(threads) == [i \in 1..Len(threads) |-> threads[i].thread_id]

\* An updateThreads that also closes the open thread.
updateThreadsReset(q) ==
    /\ ~searchHidden
    /\ calls < MaxCalls
    /\ searchInputValue' = q
    /\ LET query == toLowerCase(searchInputValue')
           threads == find_threads(engineData, query)
       IN  /\ lastCall' = Call("find_threads", "updateThreads", 0, 0, "", query, TRUE, << >>)
           /\ threadsList' = [i \in 1..Len(threads) |-> threads[i].thread_id]
    /\ calls' = calls + 1
    /\ lastError' = "none"
    /\ currentThreadId' = NullThread
    /\ currentDetails' = << >>
    /\ UNCHANGED << fileInputValue, fileReads, engineData, dom, detailsView >>

\* updateThreads, run by the search button and by Enter in the search box.
updateThreads(q) ==
    /\ ~searchHidden
    /\ calls < MaxCalls
    /\ searchInputValue' = q
    /\ LET query == toLowerCase(searchInputValue')
           threads == find_threads(engineData, query)
       IN  /\ lastCall' = Call("find_threads", "updateThreads", 0, 0, "", query, TRUE, << >>)
           /\ threadsList' = renderThreads(threads)
    /\ calls' = calls + 1
    /\ lastError' = "none"
    /\ UNCHANGED << fileInputValue, fileReads, engineData, dom, browsing, detailsView >>

\* ------------------------------------------------------------ thread view
\* renderDetails(details, hasMoreBefore = true, hasMoreAfter = true)
renderDetails(details, hasMoreBefore, hasMoreAfter) ==
    /\ detailsContent' = Ids(details)
    /\ loadBeforeButton' = hasMoreBefore
    /\ loadAfterButton' = hasMoreAfter

\* A loadInitialDetails that adds to the window instead of replacing it.
loadInitialDetailsKept(threadId) ==
    /\ currentDetails' = currentDetails \o get_thread_messages(engineData, threadId)
    /\ renderDetails(currentDetails', TRUE, TRUE)

\* loadInitialDetails on a thread the engine knows.
loadInitialDetails(threadId) ==
    /\ currentDetails' = get_thread_messages(engineData, threadId)
    /\ renderDetails(currentDetails', TRUE, TRUE)

\* The click listener of the i-th <li> of #threads-list.
ThreadClick(i) ==
    /\ ~searchHidden
    /\ i \in 1..Len(threadsList)
    /\ calls < MaxCalls
    /\ LET threadId == threadsList[i]
           known == HasThread(engineData, threadId)
       IN  /\ currentThreadId' = threadId
           /\ calls' = calls + 1
           /\ lastCall' = Call("get_thread_messages", "loadInitialDetails", 0, 0, threadId,
                               << >>, known,
                               IF known THEN get_thread_messages(engineData, threadId)
                               ELSE << >>)
           /\ IF known
              THEN loadInitialDetails(threadId) /\ lastError' = "none"
              ELSE lastError' = "UnknownThread" /\ UNCHANGED << currentDetails, detailsView >>
    /\ UNCHANGED << fileInputValue, fileReads, engineData, dom, searchInputValue,
                    threadsList >>

\* A range that ends on the first visible message instead of before it.
loadMoreBeforeRangeOverlap(firstMessageId) ==
    << firstMessageId - messagesPerPage - 1, firstMessageId >>

\* A range of messagesPerPage ids instead of messagesPerPage + 1.
loadMoreBeforeRangeShort(firstMessageId) ==
    << firstMessageId - messagesPerPage, firstMessageId - 1 >>

\* A range that reaches only half as far back.
loadMoreBeforeRangeHalf(firstMessageId) ==
    << firstMessageId - 3, firstMessageId - 1 >>

\* The range loadMoreBefore asks the engine for.
loadMoreBeforeRange(firstMessageId) ==
    << firstMessageId - messagesPerPage - 1, firstMessageId - 1 >>

\* A range of messagesPerPage ids instead of messagesPerPage + 1.
loadMoreAfterRangeShort(lastMessageId) ==
    << lastMessageId + 1, lastMessageId + messagesPerPage >>

\* A range that starts one id too far from the last visible message.
loadMoreAfterRangeGap(lastMessageId) ==
    << lastMessageId + 2, lastMessageId + messagesPerPage + 1 >>

\* The range loadMoreAfter asks the engine for.
loadMoreAfterRange(lastMessageId) ==
    << lastMessageId + 1, lastMessageId + messagesPerPage + 1 >>

\* A merge that puts the fetched messages on the wrong side.
mergeBeforeAppended(newMessages, details) == details \o newMessages

\* currentDetails = [...newMessages, ...currentDetails]
mergeBefore(newMessages, details) == newMessages \o details

\* A merge that puts the fetched messages on the wrong side.
mergeAfterPrepended(details, newMessages) == newMessages \o details

\* currentDetails = [...currentDetails, ...newMessages]
mergeAfter(details, newMessages) == details \o newMessages

\* A handler that empties the window before it asks for the range.
RangeThrownCleared ==
    /\ lastError' = "EngineError"
    /\ currentDetails' = << >>
    /\ UNCHANGED detailsView

\* get_message_range threw: the handler is left before any assignment.
RangeThrown ==
    /\ lastError' = "EngineError"
    /\ UNCHANGED << currentDetails, detailsView >>

\* The body of a "Load More" handler from the range request on.
LoadMore(by, range) ==
    \E throws \in BOOLEAN :
        LET newMessages == get_message_range(engineData, range[1], range[2])
        IN  /\ calls' = calls + 1
            /\ lastCall' = Call("get_message_range", by, range[1], range[2], "", << >>,
                                ~throws, IF throws THEN << >> ELSE newMessages)
            /\ IF throws
               THEN RangeThrown
               ELSE /\ currentDetails' = IF by = "loadMoreBefore"
                                       THEN mergeBefore(newMessages, currentDetails)
                                       ELSE mergeAfter(currentDetails, newMessages)
                    /\ renderDetails(currentDetails', TRUE, TRUE)
                    /\ lastError' = "none"

\* What both handlers do before the range request: the early return on a
\* falsy currentThreadId, and the read of an element of currentDetails,
\* which throws a TypeError on an empty array.
LoadMoreOrElse(request) ==
    IF currentThreadId \in {NullThread, ""}
    THEN UNCHANGED << currentDetails, detailsView, lastCall, calls, lastError >>
    ELSE IF currentDetails = << >>
    THEN /\ lastError' = "TypeError"
         /\ UNCHANGED << currentDetails, detailsView, lastCall, calls >>
    ELSE request

\* The click listener of #load-before.
loadMoreBefore ==
    /\ ~searchHidden
    /\ loadBeforeButton
    /\ calls < MaxCalls
    /\ LoadMoreOrElse(
         LoadMore("loadMoreBefore", loadMoreBeforeRange(currentDetails[1].message_id)))
    /\ UNCHANGED << fileInputValue, fileReads, engineData, dom, searchInputValue,
                    threadsList, currentThreadId >>

\* The click listener of #load-after.
loadMoreAfter ==
    /\ ~searchHidden
    /\ loadAfterButton
    /\ calls < MaxCalls
    /\ LoadMoreOrElse(
         LoadMore("loadMoreAfter",
                  loadMoreAfterRange(currentDetails[Len(currentDetails)].message_id)))
    /\ UNCHANGED << fileInputValue, fileReads, engineData, dom, searchInputValue,
                    threadsList, currentThreadId >>

Next ==
    \/ \E f \in Files : FileChange(f)
    \/ \E f \in Files : FileLoaded(f)
    \/ \E q \in Queries : updateThreads(q)
    \/ \E i \in 1..3 : ThreadClick(i)
    \/ loadMoreBefore
    \/ loadMoreAfter

Spec == Init /\ [][Next]_vars

\* ------------------------------------------------------------ properties
\* Steps and states the properties speak about.
RangeRequest(edge) ==
    /\ calls' # calls
    /\ lastCall'.op = "get_message_range"
    /\ lastCall'.by = edge

\* The last engine call was a range fetch at this edge that returned [].
EmptyFetch(edge) ==
    /\ lastCall.op = "get_message_range"
    /\ lastCall.by = edge
    /\ lastCall.ok
    /\ lastCall.result = << >>

StrictlyIncreasing(s) ==
    \A i \in 1..(Len(s) - 1) : s[i].message_id < s[i + 1].message_id

\* C1: in every reachable state the window is strictly increasing by
\* message_id (hence free of duplicate ids), whatever thread clicks and
\* load-more clicks led to it.
C1_WindowStrictlyIncreasing == StrictlyIncreasing(currentDetails)

\* A window that a load-more has extended on each side of the initial one.
C1_Witness ==
    /\ lastCall.op = "get_message_range"
    /\ lastCall.ok
    /\ Ids(currentDetails) = << 7, 9, 10, 11, 12, 13, 14 >>

\* C2 (as claimed): after a range fetch that returned [] the window is the
\* one rendered and the load-more control of that edge is no longer shown.
C2_EmptyFetchClearsFlag ==
    \A edge \in {"loadMoreBefore", "loadMoreAfter"} :
        EmptyFetch(edge) =>
            /\ detailsContent = Ids(currentDetails)
            /\ (edge = "loadMoreBefore" => ~loadBeforeButton)
            /\ (edge = "loadMoreAfter" => ~loadAfterButton)

\* C3 (as claimed): once the last fetch at an edge has returned [], a further
\* load-more at that edge issues no range request and leaves the window.
C3_ExhaustedEdgeIsNoOp ==
    [][\A edge \in {"loadMoreBefore", "loadMoreAfter"} :
          EmptyFetch(edge) => ~RangeRequest(edge)]_vars

\* C4: every range request of loadMoreBefore is for exactly
\* [firstVisibleId - 5 - 1, firstVisibleId - 1] of the window it was made on.
C4_BeforeRange ==
    [][RangeRequest("loadMoreBefore") =>
          /\ currentDetails # << >>
          /\ lastCall'.lo = currentDetails[1].message_id - 5 - 1
          /\ lastCall'.hi = currentDetails[1].message_id - 1]_vars

\* First visible id 10 gives the request [4, 9].
C4_Witness ==
    /\ lastCall.op = "get_message_range"
    /\ lastCall.by = "loadMoreBefore"
    /\ lastCall.lo = 4
    /\ lastCall.hi = 9
    /\ currentDetails[Len(currentDetails)].message_id >= 10

\* C5: every range request of loadMoreAfter is for exactly
\* [lastVisibleId + 1, lastVisibleId + 5 + 1] of the window it was made on.
C5_AfterRange ==
    [][RangeRequest("loadMoreAfter") =>
          /\ currentDetails # << >>
          /\ lastCall'.lo = currentDetails[Len(currentDetails)].message_id + 1
          /\ lastCall'.hi = currentDetails[Len(currentDetails)].message_id + 5 + 1]_vars

\* Last visible id 12 gives the request [13, 18].
C5_Witness ==
    /\ lastCall.op = "get_message_range"
    /\ lastCall.by = "loadMoreAfter"
    /\ lastCall.lo = 13
    /\ lastCall.hi = 18
    /\ currentDetails[1].message_id <= 12

\* C6: a loadMoreBefore fetch that returns a non-empty page of at most
\* messagesPerPage messages leaves the window equal to the fetched messages
\* followed by the previous window, rendered with "Load More Before" shown.
C6_ShortPagePrepended ==
    [][(/\ RangeRequest("loadMoreBefore")
        /\ lastCall'.ok
        /\ lastCall'.result # << >>
        /\ Len(lastCall'.result) <= messagesPerPage) =>
          /\ currentDetails' = lastCall'.result \o currentDetails
          /\ detailsContent' = Ids(lastCall'.result) \o Ids(currentDetails)
          /\ loadBeforeButton']_vars

\* Ids [7, 9] fetched before [10, 11, 12] give [7, 9, 10, 11, 12].
C6_Witness ==
    /\ lastCall.by = "loadMoreBefore"
    /\ lastCall.ok
    /\ Ids(lastCall.result) = << 7, 9 >>
    /\ Ids(currentDetails) = << 7, 9, 10, 11, 12 >>
    /\ loadBeforeButton

\* C7: a thread click whose initial load succeeds, whatever thread and window
\* were open, replaces the window by exactly the engine's initial window of
\* the clicked thread: no message of the previous window survives unless
\* that initial window holds it.
C7_SelectReplacesWindow ==
    [][(/\ calls' # calls
        /\ lastCall'.op = "get_thread_messages"
        /\ lastCall'.ok) =>
          /\ currentThreadId' = lastCall'.tid
          /\ currentDetails' = lastCall'.result
          /\ Len(currentDetails') <= InitialWindowSize
          /\ \A k \in 1..Len(currentDetails') :
                currentDetails'[k].thread = currentThreadId'
          /\ detailsContent' = Ids(currentDetails')]_vars

\* Thread t2 opened over an already extended window of another thread.
C7_Witness ==
    /\ lastCall.op = "get_thread_messages"
    /\ lastCall.ok
    /\ currentThreadId = "t2"
    /\ Ids(currentDetails) = << 7, 9, 13 >>
    /\ calls >= 5

\* C8 (as claimed): a thread click whose initial load throws leaves the
\* selected thread id and the window as they were.
C8_FailedSelectChangesNothing ==
    [][(/\ calls' # calls
        /\ lastCall'.op = "get_thread_messages"
        /\ ~lastCall'.ok) =>
          /\ currentThreadId' = currentThreadId
          /\ currentDetails' = currentDetails]_vars

\* C9: a set_data that throws changes neither the visibility of the upload
\* and search sections nor the thread id, the window or the engine's data;
\* before any archive is loaded the search section therefore stays hidden
\* and the upload section and file input stay available.
C9_FailedLoadStays ==
    [][(/\ calls' # calls
        /\ lastCall'.op = "set_data"
        /\ ~lastCall'.ok) =>
          /\ UNCHANGED << searchHidden, uploadHidden, fileInputHidden, engineData,
                          currentThreadId, currentDetails, threadsList >>
          /\ (engineData = "none" =>
                searchHidden' /\ ~uploadHidden' /\ ~fileInputHidden')]_vars

\* A malformed file rejected while no archive is loaded.
C9_Witness ==
    /\ lastCall.op = "set_data"
    /\ ~lastCall.ok
    /\ lastError = "MalformedArchive"
    /\ engineData = "none"
    /\ searchHidden
    /\ ~uploadHidden

\* C10: a range fetch that throws leaves the window, its rendering and the
\* selected thread exactly as they were before the request.
C10_FailedFetchKeepsWindow ==
    [][\A edge \in {"loadMoreBefore", "loadMoreAfter"} :
          (RangeRequest(edge) /\ ~lastCall'.ok) =>
              UNCHANGED << currentDetails, currentThreadId, detailsView,
                           searchHidden >>]_vars

\* A failed fetch on an open, non-empty window.
C10_Witness ==
    /\ lastCall.op = "get_message_range"
    /\ ~lastCall.ok
    /\ lastError = "EngineError"
    /\ currentThreadId # NullThread
    /\ Len(currentDetails) >= 3

\* Steps and states the following properties speak about.
EngineQueries == {"find_threads", "get_thread_messages", "get_message_range"}

Edges == {"loadMoreBefore", "loadMoreAfter"}

\* The messages the engine holds with lo <= message_id <= hi.
Held(lo, hi) ==
    {m \in ArchiveMessages(engineData) : lo <= m.message_id /\ m.message_id <= hi}

InWindow(m, w) == \E k \in 1..Len(w) : w[k] = m

\* C11 (as claimed): every successful set_data leaves no thread open and no
\* message of the previously loaded archive in the window.
C11_LoadArchiveResets ==
    [][(/\ calls' # calls
        /\ lastCall'.op = "set_data"
        /\ lastCall'.ok) =>
          /\ currentThreadId' = NullThread
          /\ \A k \in 1..Len(currentDetails') :
                currentDetails'[k] \notin ArchiveMessages(engineData)]_vars

\* C13: every range request is answered and merged within the handler run
\* that issues it, so that no fetch is in flight between two handler runs:
\* the window after the step is the window before it with exactly the
\* messages of this request's range put at this request's edge, which makes
\* same-edge merges happen in the order of their requests.
C13_FetchMergedWhenIssued ==
    [][\A edge \in Edges :
          (RangeRequest(edge) /\ lastCall'.ok) =>
              /\ lastCall'.result = SortById(Held(lastCall'.lo, lastCall'.hi))
              /\ edge = "loadMoreBefore" =>
                    currentDetails' = lastCall'.result \o currentDetails
              /\ edge = "loadMoreAfter" =>
                    currentDetails' = currentDetails \o lastCall'.result
              /\ detailsContent' = Ids(currentDetails')]_vars

\* Two loadMoreAfter fetches merged one after the other, in request order.
C13_Witness ==
    /\ lastCall.by = "loadMoreAfter"
    /\ lastCall.ok
    /\ lastCall.lo = 23
    /\ Ids(currentDetails) = << 14, 15, 16, 17, 18, 19, 20, 21, 22, 23 >>

\* C14 (as claimed): with a thread open, every message of the window belongs
\* to the selected thread.
C14_WindowOfOneThread ==
    currentThreadId # NullThread =>
        \A k \in 1..Len(currentDetails) : currentDetails[k].thread = currentThreadId

\* C15 (as claimed): between two adjacent messages of the window the engine
\* holds no message.
C15_NoSkippedMessage ==
    \A k \in 1..(Len(currentDetails) - 1) :
        Held(currentDetails[k].message_id + 1, currentDetails[k + 1].message_id - 1) = {}

\* C15 (amended): a load-more merge skips nothing: the engine holds no message
\* between two adjacent fetched messages, nor between the fetched messages
\* and the window edge they were merged at.
C15_MergeSkipsNothing ==
    [][\A edge \in Edges :
          (RangeRequest(edge) /\ lastCall'.ok) =>
              LET n == Len(lastCall'.result)
                  old == Len(currentDetails)
                  joined == IF edge = "loadMoreBefore" THEN 1..Min(n, Len(currentDetails') - 1)
                            ELSE IF n = 0 THEN {} ELSE old..(Len(currentDetails') - 1)
              IN  \A k \in joined :
                      Held(currentDetails'[k].message_id + 1,
                           currentDetails'[k + 1].message_id - 1) = {}]_vars

\* A full page joined to the last message of the initial window.
C15_Witness ==
    /\ lastCall.by = "loadMoreAfter"
    /\ lastCall.ok
    /\ Ids(lastCall.result) = << 17, 18, 19, 20, 21, 22 >>
    /\ Ids(currentDetails) = << 14, 15, 16, 17, 18, 19, 20, 21, 22 >>

\* C16: a search sends the engine the text of the search box with every
\* character lower-cased, and lists exactly the threads the engine finds for
\* it, in the engine's order, in place of the previous list.
C16_SearchListsEngineResult ==
    [][(/\ calls' # calls
        /\ lastCall'.op = "find_threads") =>
          LET found == find_threads(engineData, lastCall'.query)
          IN  /\ Len(lastCall'.query) = Len(searchInputValue')
              /\ \A i \in 1..Len(lastCall'.query) :
                    /\ lastCall'.query[i] \notin {"T", "R", "X"}
                    /\ lastCall'.query[i] = LowerChar(searchInputValue'[i])
              /\ Len(threadsList') = Len(found)
              /\ \A i \in 1..Len(found) : threadsList'[i] = found[i].thread_id]_vars

\* "T" typed, "t" searched, two threads listed in the engine's order.
C16_Witness ==
    /\ lastCall.op = "find_threads"
    /\ searchInputValue = << "T" >>
    /\ lastCall.query = << "t" >>
    /\ engineData = "B"
    /\ threadsList = << "t1", "t3" >>

\* C17 (as claimed): whenever a load-more button can be clicked the window
\* is non-empty, and no load-more handler faults on reading its first or
\* last message.
C17_LoadMoreNeverFaults ==
    /\ (~searchHidden /\ (loadBeforeButton \/ loadAfterButton)) => currentDetails # << >>
    /\ lastError # "TypeError"

\* C18 (as claimed): paging never gets stuck short of a message of the open
\* thread: when the fetch at an edge has come back empty, so that a further
\* click at that edge repeats the same request, no message of the open
\* thread is left beyond that edge.
C18_PagingReachesEveryMessage ==
    \A edge \in Edges :
        (EmptyFetch(edge) /\ currentDetails # << >>) =>
            \A m \in ArchiveMessages(engineData) :
                m.thread = currentThreadId =>
                    /\ edge = "loadMoreBefore" =>
                          m.message_id >= currentDetails[1].message_id
                    /\ edge = "loadMoreAfter" =>
                          m.message_id <= currentDetails[Len(currentDetails)].message_id

\* C18 (amended): a load-more fetch that succeeds brings into the window
\* every message the engine holds within messagesPerPage + 1 ids of the
\* window edge: ids first - 6 .. first - 1 for loadMoreBefore and
\* last + 1 .. last + 6 for loadMoreAfter.
C18_PagingReachesOnePage ==
    [][\A edge \in Edges :
          (RangeRequest(edge) /\ lastCall'.ok) =>
              LET first == currentDetails[1].message_id
                  last == currentDetails[Len(currentDetails)].message_id
                  near == IF edge = "loadMoreBefore" THEN Held(first - 6, first - 1)
                          ELSE Held(last + 1, last + 6)
              IN  \A m \in near : InWindow(m, currentDetails')]_vars

\* The message exactly six ids before the first one has been brought in.
C18_Witness ==
    /\ lastCall.by = "loadMoreBefore"
    /\ lastCall.ok
    /\ currentThreadId = "t3"
    /\ Ids(currentDetails) = << 14, 15, 16, 17, 18, 19, 20, 21, 22 >>

\* C19: a search leaves the selected thread id, the window and its rendering
\* as they were.
C19_SearchKeepsThread ==
    [][(/\ calls' # calls
        /\ lastCall'.op = "find_threads") =>
          UNCHANGED << currentThreadId, currentDetails, detailsView >>]_vars

\* A search that no longer lists the thread that is open and paged.
C19_Witness ==
    /\ lastCall.op = "find_threads"
    /\ currentThreadId = "t1"
    /\ Len(currentDetails) > InitialWindowSize
    /\ threadsList = << "t2" >>

\* C20: while no set_data has succeeded the search section is hidden and the
\* engine has been asked nothing but set_data.
C20_NoQueryBeforeSetData ==
    engineData = "none" =>
        /\ searchHidden
        /\ lastCall.op \notin EngineQueries
        /\ threadsList = << >>
        /\ ~loadBeforeButton /\ ~loadAfterButton

\* A query made once an archive is loaded, while another file is being read.
C20_Witness ==
    /\ lastCall.op \in EngineQueries
    /\ engineData # "none"
    /\ "bad" \in fileReads
====
